---- MODULE Spec2Model ----
(***************************************************************************)
(* Quota enforcement and usage accounting of the download backend:         *)
(* models/User.js (counters, lazy resets, canDownload,                     *)
(* incrementDownloadCount), routes/download.js (status, history and the    *)
(* transactional POST /api/download/:productId), routes/user.js (stats and *)
(* download-status, which save the user document outside any transaction)  *)
(* the catalogue writes of routes/products.js and the download route of    *)
(* routes/chatbot.js.                                                      *)
(*                                                                         *)
(* Time is counted in minutes.  A Date is the number of minutes since the  *)
(* start of month 0; NoDate stands for a missing (undefined) Date.         *)
(* MongoDB is modelled as the source uses it: single-document writes are   *)
(* atomic, a multi-document transaction reads from the snapshot taken at   *)
(* its first read, buffers its writes until commitTransaction, and a write *)
(* to a document changed since the snapshot (or written by another open    *)
(* transaction) fails with a write conflict.                               *)
(***************************************************************************)
EXTENDS Integers, Sequences, FiniteSets, Bags, TLC

\* ---------------------------------------------------------------- bounds
MaxReqs == 2          \* request slots that can be in flight at once
MaxTicks == 2         \* sampled instants the clock moves through in one run
MaxArrivals == 3      \* operations that arrive in one run
ConcArrivals == 2     \* operations that arrive in one run with concurrent requests
MaxChanges == 1       \* of them, changes of a subscription, an identity or the catalogue
DaysPerMonth == 30    \* length of every calendar month of the model
PrevMonthDownloads == 3  \* downloads of the presets made before this month
MonthShortfall == 2   \* days the month after the first one of the model is shorter by

\* ------------------------------------------------------- program constants
DailyLimit == 15
FreeMonthlyLimit == 350
PremiumMonthlyLimit == 500
DedupMinutes == 30
PremiumDurationDays == 30

MinutesPerHour == 60
MinutesPerDay == 24 * 60
NoDate == -1
NoDoc == [absent |-> TRUE]

Users == {"u1"}
Products == {"p1", "p2"}
Urls == {"url1", "url2"}

\* --------------------------------------------------------------- calendar
Min(a, b) == IF a < b THEN a ELSE b
Max(a, b) == IF a > b THEN a ELSE b
\* Math.ceil(a / b) for b > 0 and any integer a
Ceil(a, b) == 0 - ((0 - a) \div b)

\* new Date(d.getFullYear(), d.getMonth(), d.getDate()): 00:00 of d's day
StartOfDay(t) == (t \div MinutesPerDay) * MinutesPerDay
DayOf(t) == t \div MinutesPerDay
\* The calendar of the model: months of DaysPerMonth days, but for the
\* month after the one the model starts in, which is MonthShortfall days
\* shorter (as February follows January).
ShortMonth == 2
MonthStart(m) ==
  (m * DaysPerMonth - (IF m > ShortMonth THEN MonthShortfall ELSE 0)) * MinutesPerDay
MonthIndex(t) ==
  IF DayOf(t) < (ShortMonth + 1) * DaysPerMonth - MonthShortfall
  THEN DayOf(t) \div DaysPerMonth
  ELSE (DayOf(t) + MonthShortfall) \div DaysPerMonth
MonthLength(m) == (MonthStart(m + 1) - MonthStart(m)) \div MinutesPerDay
\* getDate(): the day of the month, from 1
DayOfMonth(t) == DayOf(t) - (MonthStart(MonthIndex(t)) \div MinutesPerDay) + 1
\* `${getFullYear()}-${String(getMonth() + 1).padStart(2, '0')}`
MonthToken(t) == <<1970 + (MonthIndex(t) \div 12), (MonthIndex(t) % 12) + 1>>
\* new Date(y, m, d + 1)
StartOfTomorrow(t) == StartOfDay(t) + MinutesPerDay
\* new Date(y, m + 1, 1)
StartOfNextMonth(t) == MonthStart(MonthIndex(t) + 1)
\* d = new Date(); d.setMonth(d.getMonth() + 1); d.setDate(1);
\* d.setHours(0, 0, 0, 0): setMonth keeps the day of the month, and a day
\* the next month does not have rolls over into the month after it.
SetMonthNext(t) ==
  IF DayOfMonth(t) <= MonthLength(MonthIndex(t) + 1)
  THEN MonthStart(MonthIndex(t) + 1)
  ELSE MonthStart(MonthIndex(t) + 2)

\* The instants the wall clock is sampled at: the day the model starts on
\* is the second-to-last day of month 1, so that a day boundary and a month
\* boundary both lie ahead.
Day0 == (2 * DaysPerMonth - 2) * MinutesPerDay
TimePoints ==
  { Day0 + 60, Day0 + 60 + DedupMinutes, Day0 + 61 + DedupMinutes,
    Day0 + MinutesPerDay - 1, Day0 + MinutesPerDay,
    Day0 + MinutesPerDay + 10,
    Day0 + 2 * MinutesPerDay - 1, Day0 + 2 * MinutesPerDay,
    Day0 + 2 * MinutesPerDay + 10 }
FirstTime == Day0 + 60
LastTime == Day0 + 2 * MinutesPerDay + 10
NextTime(t) == IF t = LastTime THEN t
               ELSE CHOOSE x \in TimePoints :
                      x > t /\ \A y \in TimePoints : y > t => x <= y

\* ------------------------------------------------------------ User model
\* A user document of the schema: the fields the quota engine reads or
\* writes.  downloads is the embedded history, a bag of
\* [productId, downloadedAt]; statsTotal is downloadStats.totalDownloads.
NewUser(t) ==
  [ isVerified |-> FALSE, subscription |-> "free", premiumExpiry |-> NoDate,
    dailyDownloads |-> 0, dailyDownloadDate |-> t,
    monthlyDownloads |-> 0, monthlyDownloadMonth |-> MonthToken(t),
    totalDownloads |-> 0, downloads |-> EmptyBag, statsTotal |-> 0 ]

\* A reset that reports every reset it performs
ResetDailyReportsReset(u, t) ==
  LET today == StartOfDay(t)
      lastDownloadDay == IF u.dailyDownloadDate = NoDate THEN NoDate
                         ELSE StartOfDay(u.dailyDownloadDate)
  IN IF lastDownloadDay = NoDate \/ today > lastDownloadDay
     THEN [ u |-> [u EXCEPT !.dailyDownloads = 0, !.dailyDownloadDate = today],
            wasReset |-> TRUE ]
     ELSE [ u |-> u, wasReset |-> FALSE ]

\* A reset that also resets on the day of the anchor
ResetDailySameDayToo(u, t) ==
  LET today == StartOfDay(t)
      lastDownloadDay == IF u.dailyDownloadDate = NoDate THEN NoDate
                         ELSE StartOfDay(u.dailyDownloadDate)
  IN IF lastDownloadDay = NoDate \/ today >= lastDownloadDay
     THEN [ u |-> [u EXCEPT !.dailyDownloads = 0, !.dailyDownloadDate = today],
            wasReset |-> u.dailyDownloads > 0 ]
     ELSE [ u |-> u, wasReset |-> FALSE ]

\* A reset that anchors the count at the start of the next day
ResetDailyToTomorrow(u, t) ==
  LET today == StartOfDay(t)
      lastDownloadDay == IF u.dailyDownloadDate = NoDate THEN NoDate
                         ELSE StartOfDay(u.dailyDownloadDate)
  IN IF lastDownloadDay = NoDate \/ today > lastDownloadDay
     THEN [ u |-> [u EXCEPT !.dailyDownloads = 0,
                            !.dailyDownloadDate = StartOfTomorrow(t)],
            wasReset |-> u.dailyDownloads > 0 ]
     ELSE [ u |-> u, wasReset |-> FALSE ]

\* userSchema.methods.resetDailyDownloadsIfNeeded, with `now` read as t
resetDailyDownloadsIfNeeded(u, t) ==
  LET today == StartOfDay(t)
      lastDownloadDay == IF u.dailyDownloadDate = NoDate THEN NoDate
                         ELSE StartOfDay(u.dailyDownloadDate)
  IN IF lastDownloadDay = NoDate \/ today > lastDownloadDay
     THEN [ u |-> [u EXCEPT !.dailyDownloads = 0, !.dailyDownloadDate = today],
            wasReset |-> u.dailyDownloads > 0 ]
     ELSE [ u |-> u, wasReset |-> FALSE ]

\* A monthly reset that reports every reset it performs
ResetMonthlyReportsReset(u, t) ==
  LET currentMonth == MonthToken(t)
  IN IF u.monthlyDownloadMonth # currentMonth
     THEN [ u |-> [u EXCEPT !.monthlyDownloads = 0,
                            !.monthlyDownloadMonth = currentMonth],
            wasReset |-> TRUE ]
     ELSE [ u |-> u, wasReset |-> FALSE ]

\* userSchema.methods.resetMonthlyDownloadsIfNeeded, with `now` read as t
resetMonthlyDownloadsIfNeeded(u, t) ==
  LET currentMonth == MonthToken(t)
  IN IF u.monthlyDownloadMonth # currentMonth
     THEN [ u |-> [u EXCEPT !.monthlyDownloads = 0,
                            !.monthlyDownloadMonth = currentMonth],
            wasReset |-> u.monthlyDownloads > 0 ]
     ELSE [ u |-> u, wasReset |-> FALSE ]

\* A subscription that still counts at the instant it expires
IsActivePremiumInclusive(u, t) ==
  u.subscription = "premium" /\ u.premiumExpiry # NoDate /\ u.premiumExpiry >= t

\* isPremium && this.premiumExpiry && this.premiumExpiry > new Date()
IsActivePremium(u, t) ==
  u.subscription = "premium" /\ u.premiumExpiry # NoDate /\ u.premiumExpiry > t

MonthlyLimitOf(u, t) ==
  IF IsActivePremium(u, t) THEN PremiumMonthlyLimit ELSE FreeMonthlyLimit

\* userSchema.methods.canDownload.  ts holds the five clock reads of the
\* method in program order: the daily reset, the monthly reset, isActive,
\* daysLeft, and `now` of the time-to-reset arithmetic.  The result is the
\* document as the method leaves it in memory and the returned object
\* (reason is reduced to the gate it names).
CanDownloadUnverified(u) ==
  [ u |-> u,
    res |-> [ canDownload |-> FALSE, reason |-> "unverified",
              subscription |-> u.subscription,
              daily |-> [used |-> 0, limit |-> DailyLimit, remaining |-> DailyLimit,
                         hoursUntilReset |-> NoDate],
              monthly |-> [used |-> 0, limit |-> FreeMonthlyLimit,
                           remaining |-> FreeMonthlyLimit, daysUntilReset |-> NoDate],
              total |-> u.totalDownloads,
              requiresVerification |-> TRUE,
              subscriptionStatus |-> [active |-> FALSE, daysLeft |-> 0],
              resetInfo |-> [dailyReset |-> FALSE, monthlyReset |-> FALSE,
                             nextDailyReset |-> NoDate, nextMonthlyReset |-> NoDate] ] ]

\* A gate that leaves the monthly limit out
EligibleDailyOnly(dailyRemaining, monthlyRemaining) == dailyRemaining > 0

\* A gate that lets either window pass
EligibleEither(dailyRemaining, monthlyRemaining) ==
  dailyRemaining > 0 \/ monthlyRemaining > 0

\* const canDownload = dailyRemaining > 0 && monthlyRemaining > 0
Eligible(dailyRemaining, monthlyRemaining) ==
  dailyRemaining > 0 /\ monthlyRemaining > 0

CanDownloadVerified(u, ts) ==
  LET d == resetDailyDownloadsIfNeeded(u, ts[1])
      m == resetMonthlyDownloadsIfNeeded(d.u, ts[2])
      v == m.u
      isPremium == v.subscription = "premium"
      isActive == IsActivePremium(v, ts[3])
      dailyLimit == DailyLimit
      monthlyLimit == IF isActive THEN PremiumMonthlyLimit ELSE FreeMonthlyLimit
      dailyUsed == v.dailyDownloads
      monthlyUsed == v.monthlyDownloads
      dailyRemaining == Max(0, dailyLimit - dailyUsed)
      monthlyRemaining == Max(0, monthlyLimit - monthlyUsed)
      canDl == Eligible(dailyRemaining, monthlyRemaining)
      daysLeft == IF isPremium /\ v.premiumExpiry # NoDate
                  THEN Max(0, Ceil(v.premiumExpiry - ts[4], MinutesPerDay))
                  ELSE 0
      now5 == ts[5]
      tomorrow == StartOfTomorrow(now5)
      hoursUntilDailyReset == Ceil(tomorrow - now5, MinutesPerHour)
      nextMonth == StartOfNextMonth(now5)
      daysUntilMonthlyReset == Ceil(nextMonth - now5, MinutesPerDay)
      reason == IF canDl THEN "within"
                ELSE IF dailyRemaining <= 0 THEN "daily"
                ELSE IF monthlyRemaining <= 0 THEN "monthly"
                ELSE "within"
  IN [ u |-> v,
       res |-> [ canDownload |-> canDl, reason |-> reason,
                 subscription |-> v.subscription,
                 daily |-> [used |-> dailyUsed, limit |-> dailyLimit,
                            remaining |-> dailyRemaining,
                            hoursUntilReset |-> hoursUntilDailyReset],
                 monthly |-> [used |-> monthlyUsed, limit |-> monthlyLimit,
                              remaining |-> monthlyRemaining,
                              daysUntilReset |-> daysUntilMonthlyReset],
                 total |-> v.totalDownloads,
                 requiresVerification |-> FALSE,
                 subscriptionStatus |-> [active |-> isActive, daysLeft |-> daysLeft],
                 resetInfo |-> [dailyReset |-> d.wasReset, monthlyReset |-> m.wasReset,
                                nextDailyReset |-> tomorrow,
                                nextMonthlyReset |-> nextMonth] ] ]

\* A canDownload that counts the call as a download of the day
CanDownloadCounting(u, ts) ==
  LET c == IF ~u.isVerified THEN CanDownloadUnverified(u)
           ELSE CanDownloadVerified(u, ts)
  IN [ u |-> [c.u EXCEPT !.dailyDownloads = @ + 1], res |-> c.res ]

canDownload(u, ts) ==
  IF ~u.isVerified THEN CanDownloadUnverified(u) ELSE CanDownloadVerified(u, ts)

\* An increment that leaves the lifetime count out
IncrementWithoutTotal(u, pid, ts) ==
  LET d == resetDailyDownloadsIfNeeded(u, ts[1])
      m == resetMonthlyDownloadsIfNeeded(d.u, ts[2])
      v == m.u
  IN [v EXCEPT !.dailyDownloads = v.dailyDownloads + 1,
               !.monthlyDownloads = v.monthlyDownloads + 1,
               !.downloads = v.downloads (+) SetToBag({[productId |-> pid, downloadedAt |-> ts[3]]})]

\* An increment that is given no productId: no entry of the embedded
\* history and no update of the statistics
IncrementWithoutHistory(u, pid, ts) ==
  LET d == resetDailyDownloadsIfNeeded(u, ts[1])
      m == resetMonthlyDownloadsIfNeeded(d.u, ts[2])
      v == m.u
  IN [v EXCEPT !.dailyDownloads = v.dailyDownloads + 1,
               !.monthlyDownloads = v.monthlyDownloads + 1,
               !.totalDownloads = v.totalDownloads + 1]

\* The synchronous part of userSchema.methods.incrementDownloadCount, up to
\* the `await this.save()`.  ts: the clock reads of the daily reset, the
\* monthly reset and of `downloadedAt: new Date()`.
incrementDownloadCount(u, pid, ts) ==
  LET d == resetDailyDownloadsIfNeeded(u, ts[1])
      m == resetMonthlyDownloadsIfNeeded(d.u, ts[2])
      v == m.u
      total == v.totalDownloads + 1
  IN [v EXCEPT !.dailyDownloads = v.dailyDownloads + 1,
               !.monthlyDownloads = v.monthlyDownloads + 1,
               !.totalDownloads = total,
               !.downloads = v.downloads (+) SetToBag({[productId |-> pid, downloadedAt |-> ts[3]]}),
               !.statsTotal = total]

\* ------------------------------------------------------------------ state
VARIABLES
  now,        \* the wall clock
  users,      \* the users collection: userId -> document
  products,   \* the products collection: productId -> document or NoDoc
  downloads,  \* the downloads collection: a bag of Download documents
  reqs,       \* the requests in flight: the position and locals of each handler
  out,        \* the response the last step sent (NoResp when it sent none)
  arrivals,   \* how many more operations may arrive, and how many changes among them
  ticks       \* how many more sampled instants the clock may move on

vars == <<now, users, products, downloads, reqs, out, arrivals, ticks>>
clock == <<now, ticks>>

\* The request slots of this run
Slots == DOMAIN reqs

\* The values of n successive `new Date()` reads of one synchronous block
\* that starts at instant t: the clock moves on to the next sampled instant
\* before at most one of the reads.
ClockReads(t, n) ==
  { [i \in 1 .. n |-> IF i < k THEN t ELSE NextTime(t)] :
      k \in IF ticks > 0 /\ t < LastTime THEN 1 .. (n + 1) ELSE {n + 1} }

Last(ts) == ts[Len(ts)]

\* The clock after the reads ts of a synchronous block
Advance(ts) ==
  /\ now' = Last(ts)
  /\ ticks' = IF Last(ts) = now THEN ticks ELSE ticks - 1

\* What the database holds (the committed, persisted state)
Db == [users |-> users, products |-> products, downloads |-> downloads]

UserKey(uid) == <<"user", uid>>
ProductKey(pid) == <<"product", pid>>

NoResp ==
  [ code |-> 0, outcome |-> "none", tx |-> "none", kind |-> "none",
    uid |-> "none", pid |-> "none", at |-> "none" ]

IdleReq ==
  [ kind |-> "idle", pc |-> "done", uid |-> "none", pid |-> "none", tx |-> "none",
    user |-> NoDoc, product |-> NoDoc, snap |-> NoDoc, stale |-> {}, wrote |-> {},
    dl |-> NoDoc, cutoff |-> NoDate, dirty |-> {}, check |-> NoDoc,
    wasReset |-> FALSE ]

\* The handler of request q goes on to its next await with locals q2
Go(q2) == [q |-> q2, out |-> NoResp]

\* The handler of request q sends response resp and ends (finally:
\* session.endSession()); tx is the fate of its transaction, `at` the await
\* it had reached.
Reply(q, tx, resp) ==
  [ q |-> IdleReq,
    out |-> resp @@ [ tx |-> tx, kind |-> q.kind, uid |-> q.uid, pid |-> q.pid,
                      at |-> q.pc ] ]

\* Request slots are interchangeable: a request takes the first free one.
FreeSlot(r) ==
  /\ arrivals.ops > 0
  /\ reqs[r].pc = "done"
  /\ \A q \in Slots : q < r => reqs[q].pc # "done"

\* ---------------------------------------------------- the initial database
\* The downloads of the past were of products that have left the catalogue
\* since; which product each was plays no part, so they share one id.
HistProduct == "old"
HistUrl == "url1"
PrevMonthDay == (DaysPerMonth - 1) * MinutesPerDay

\* The number of downloads a preset account made on the day that starts at
\* instant t: `daily` on its last active day (the first day of the model),
\* DailyLimit on the days before it until `monthly` is used up, and
\* PrevMonthDownloads on the last day of the previous month.
PresetCount(ps, t) ==
  LET anchor == Day0
      k == (anchor - t) \div MinutesPerDay
  IN IF t = PrevMonthDay THEN PrevMonthDownloads
     ELSE IF t = anchor THEN ps.daily
     ELSE IF t > anchor THEN 0
     ELSE Min(DailyLimit, Max(0, (ps.monthly - ps.daily) - DailyLimit * (k - 1)))

PresetDays(ps) ==
  { t \in { d * MinutesPerDay : d \in (DaysPerMonth - 1) .. (2 * DaysPerMonth - 2) } :
      PresetCount(ps, t) > 0 }

PresetUser(ps) ==
  [ isVerified |-> TRUE, subscription |-> ps.sub, premiumExpiry |-> ps.expiry,
    dailyDownloads |-> ps.daily,
    dailyDownloadDate |-> Day0,
    monthlyDownloads |-> ps.monthly, monthlyDownloadMonth |-> MonthToken(Day0),
    totalDownloads |-> ps.monthly + PrevMonthDownloads,
    downloads |-> [ e \in { [productId |-> HistProduct, downloadedAt |-> t] :
                              t \in PresetDays(ps) } |-> PresetCount(ps, e.downloadedAt) ],
    statsTotal |-> ps.monthly + PrevMonthDownloads ]

PresetDownloads(uid, ps) ==
  [ e \in { [userId |-> uid, productId |-> HistProduct, downloadDate |-> t,
             downloadUrl |-> HistUrl] : t \in PresetDays(ps) }
      |-> PresetCount(ps, e.downloadDate) ]

\* Preset accounts: a free one that is one download below both limits, a
\* free one that is one below the daily limit only, a premium one above the
\* free monthly limit whose subscription runs out on the second day, and one
\* at the daily limit whose subscription has run out.
FreeAtBoth == [daily |-> 14, monthly |-> 349, sub |-> "free", expiry |-> NoDate,
   verified |-> TRUE]
FreeAtDaily == [daily |-> 14, monthly |-> 44, sub |-> "free", expiry |-> NoDate,
   verified |-> TRUE]
\* a free one that is one below the monthly limit with the day barely begun
FreeAtMonthly == [daily |-> 3, monthly |-> 349, sub |-> "free", expiry |-> NoDate,
   verified |-> TRUE]
PremiumExpiring ==
  [ daily |-> 14, monthly |-> 359, sub |-> "premium",
    expiry |-> Day0 + MinutesPerDay + 10, verified |-> TRUE ]
PremiumExpired ==
  [ daily |-> 15, monthly |-> 345, sub |-> "premium", expiry |-> Day0,
    verified |-> TRUE ]
\* and the account of a subject who registered on the first day and has not
\* verified the address yet
Fresh ==
  [daily |-> 0, monthly |-> 0, sub |-> "free", expiry |-> NoDate, verified |-> FALSE]

InitPreset(ps) ==
  /\ users = [u \in Users |-> PresetUser(ps)]
  /\ downloads = PresetDownloads("u1", ps)
  /\ products = [p \in Products |->
                   [isActive |-> TRUE, downloadUrl |-> HistUrl, downloads |-> 0]]

\* A subject registered on the first day and not verified yet
InitFresh ==
  /\ users = [u \in Users |-> NewUser(Day0 + 30)]
  /\ downloads = EmptyBag
  /\ products = [p \in Products |->
                   [isActive |-> TRUE, downloadUrl |-> HistUrl, downloads |-> 0]]

\* A run starts from a preset account (or the fresh one) at a sampled
\* instant, with a number of request slots and a budget of operations,
\* changes and clock movements.
InitWith(starts, slots, ops, chg, tks) ==
  /\ \E sc \in starts :
       /\ now = sc.at
       /\ IF sc.ps.verified THEN InitPreset(sc.ps) ELSE InitFresh
  /\ ticks = tks
  /\ out = NoResp
  /\ arrivals = [ops |-> ops, changes |-> chg]
  /\ reqs = [r \in 1 .. slots |-> IdleReq]

\* ------------------------------------------------------------- the clock
\* Time passes: the wall clock moves on to the next sampled instant.
Tick ==
  /\ now < LastTime /\ ticks > 0
  /\ now' = NextTime(now)
  /\ ticks' = ticks - 1
  /\ out' = NoResp
  /\ UNCHANGED <<users, products, downloads, reqs, arrivals>>

\* ---------------------------------------------------------- transactions
\* Some other open transaction has written document k (and not committed).
WrittenByOther(r, k) ==
  \E q \in Slots \ {r} : reqs[q].tx = "active" /\ k \in reqs[q].wrote

\* A conflict only with a document another open transaction holds
WriteConflictHeldOnly(r, k) == WrittenByOther(r, k)

\* A write of transaction r to document k fails with a write conflict when
\* k was changed after r's snapshot or is held by another open transaction.
WriteConflict(r, k) == k \in reqs[r].stale \/ WrittenByOther(r, k)

\* A change no snapshot notices
MarkStaleNothing(rs, r, keys) == rs

\* The request slots after documents `keys` changed in the database: every
\* other open transaction that has taken its snapshot sees them as stale.
MarkStale(rs, r, keys) ==
  [ q \in Slots |->
      IF q # r /\ rs[q].tx = "active" /\ rs[q].snap # NoDoc
      THEN [rs[q] EXCEPT !.stale = @ \cup keys]
      ELSE rs[q] ]

\* A single-document write outside a transaction waits for the open
\* transaction that holds the document.
CanWrite(r, k) == ~WrittenByOther(r, k)

\* ------------------------------------- POST /api/download/:productId
ProductIds == Products \cup {"invalid"}

\* The request arrives: startSession, the ObjectId check, startTransaction
\* and the issue of User.findById.
ConsumeStart(r, uid, pid) ==
  LET q == [IdleReq EXCEPT !.kind = "consume", !.uid = uid, !.pid = pid]
      nx == IF pid = "invalid"
            THEN Reply(q, "none", [code |-> 400, outcome |-> "Invalid"])
            ELSE Go([q EXCEPT !.pc = "findUser", !.tx = "active"])
  IN /\ FreeSlot(r)
     /\ reqs' = [reqs EXCEPT ![r] = nx.q]
     /\ out' = nx.out
     /\ arrivals' = [arrivals EXCEPT !.ops = @ - 1]
     /\ UNCHANGED <<clock, users, products, downloads>>

\* A resetInfo that looks at the monthly gate first
DenialResetInfoMonthlyFirst(check, ts) ==
  IF check.monthly.remaining <= 0
  THEN [ type |-> "monthly", resetTime |-> SetMonthNext(ts[1]),
         countdown |-> Ceil(SetMonthNext(ts[1]) - ts[2], MinutesPerDay) ]
  ELSE [ type |-> "daily", resetTime |-> StartOfTomorrow(ts[1]),
         countdown |-> Ceil(StartOfTomorrow(ts[1]) - ts[2], MinutesPerHour) ]

\* resetInfo of the 429 response; ts: the two clock reads of the branch taken
DenialResetInfo(check, ts) ==
  IF check.daily.remaining <= 0
  THEN [ type |-> "daily", resetTime |-> StartOfTomorrow(ts[1]),
         countdown |-> Ceil(StartOfTomorrow(ts[1]) - ts[2], MinutesPerHour) ]
  ELSE IF check.monthly.remaining <= 0
  THEN [ type |-> "monthly", resetTime |-> SetMonthNext(ts[1]),
         countdown |-> Ceil(SetMonthNext(ts[1]) - ts[2], MinutesPerDay) ]
  ELSE [ type |-> "none", resetTime |-> NoDate, countdown |-> NoDate ]

\* A gate that saves the document canDownload left in memory
AfterGateSaved(uid, v) == v

\* The user document in the database after the gate: the route calls no
\* save between canDownload and its answer, so what canDownload reset in
\* memory stays there.
AfterGate(uid, v) == users[uid]

\* A gate that asks no subject for verification
RequiresVerificationNever(u) == FALSE

\* if (!user.isVerified): the 403 branch of the route
RequiresVerification(u) == ~u.isVerified

\* User.findById(...).session(session) returns (the first read of the
\* transaction fixes its snapshot); then the verification gate, canDownload
\* and the denial branch, or the issue of Product.findById.
ConsumeFindUser(r) ==
  LET q == reqs[r]
      u == users[q.uid]
  IN /\ q.kind = "consume" /\ q.pc = "findUser"
     /\ \E ts \in ClockReads(now, 7) :
          LET cd == canDownload(u, SubSeq(ts, 1, 5))
              nx == IF RequiresVerification(u)
                    THEN Reply(q, "aborted", [code |-> 403, outcome |-> "Unverified"])
                    ELSE IF ~cd.res.canDownload
                    THEN Reply(q, "aborted",
                           [ code |-> 429, outcome |-> "Denied", check |-> cd.res,
                             resetInfo |-> DenialResetInfo(cd.res, SubSeq(ts, 6, 7)) ])
                    ELSE Go([q EXCEPT !.pc = "findProduct", !.user = cd.u,
                                      !.snap = Db, !.check = cd.res])
          IN /\ Advance(ts)
             /\ reqs' = [reqs EXCEPT ![r] = nx.q]
             /\ out' = nx.out
             /\ users' = [users EXCEPT ![q.uid] = AfterGate(q.uid, cd.u)]
     /\ UNCHANGED <<products, downloads>>

\* A cutoff a tenth of the window back
ThreeMinutesAgo(t) == t - (DedupMinutes \div 10)

\* const thirtyMinutesAgo = new Date(Date.now() - 30 * 60 * 1000)
thirtyMinutesAgo(t) == t - DedupMinutes

\* Product.findById(productId).session(session) returns, read from the
\* snapshot; then the 404 branch, or thirtyMinutesAgo and the issue of
\* Download.findOne.
ConsumeFindProduct(r) ==
  LET q == reqs[r]
      product == q.snap.products[q.pid]
  IN /\ q.kind = "consume" /\ q.pc = "findProduct"
     /\ \E ts \in ClockReads(now, 1) :
          LET nx == IF product = NoDoc \/ ~product.isActive
                    THEN Reply(q, "aborted", [code |-> 404, outcome |-> "NotFound"])
                    ELSE Go([q EXCEPT !.pc = "findRecent", !.product = product,
                                      !.cutoff = thirtyMinutesAgo(ts[1])])
          IN /\ Advance(ts)
             /\ reqs' = [reqs EXCEPT ![r] = nx.q]
             /\ out' = nx.out
     /\ UNCHANGED <<users, products, downloads>>

\* A lookup that leaves the boundary of the window out
RecentDownloadAfter(dls, uid, pid, cutoff) ==
  \E d \in BagToSet(dls) :
     d.userId = uid /\ d.productId = pid /\ d.downloadDate > cutoff

\* Download.findOne({userId, productId, downloadDate: {$gte: cutoff}})
RecentDownload(dls, uid, pid, cutoff) ==
  \E d \in BagToSet(dls) :
     d.userId = uid /\ d.productId = pid /\ d.downloadDate >= cutoff

\* Download.findOne(...).session(session) returns; then the re-download
\* branch, or the new Download document and the issue of download.save.
ConsumeFindRecent(r) ==
  LET q == reqs[r]
  IN /\ q.kind = "consume" /\ q.pc = "findRecent"
     /\ \E ts \in ClockReads(now, 1) :
          LET nx == IF RecentDownload(q.snap.downloads, q.uid, q.pid, q.cutoff)
                    THEN Reply(q, "aborted",
                           [ code |-> 200, outcome |-> "Replayed",
                             downloadUrl |-> q.product.downloadUrl,
                             check |-> q.check ])
                    ELSE Go([q EXCEPT !.pc = "saveDownload",
                                      !.dl = [ userId |-> q.uid, productId |-> q.pid,
                                               downloadDate |-> ts[1],
                                               downloadUrl |-> q.product.downloadUrl ]])
          IN /\ Advance(ts)
             /\ reqs' = [reqs EXCEPT ![r] = nx.q]
             /\ out' = nx.out
     /\ UNCHANGED <<users, products, downloads>>

\* A download.save() without the session: the insert reaches the database
\* at once
ConsumeSaveDownloadNoSession(r) ==
  LET q == reqs[r]
  IN /\ q.kind = "consume" /\ q.pc = "saveDownload"
     /\ \E ts \in ClockReads(now, 3) :
          /\ Advance(ts)
          /\ reqs' = [reqs EXCEPT ![r] =
               [q EXCEPT !.pc = "saveUser",
                         !.user = incrementDownloadCount(q.user, q.pid, ts)]]
     /\ out' = NoResp
     /\ downloads' = downloads (+) SetToBag({q.dl})
     /\ UNCHANGED <<users, products>>

\* download.save({session}) returns (the insert is buffered in the
\* transaction); then user.incrementDownloadCount up to its this.save().
ConsumeSaveDownload(r) ==
  LET q == reqs[r]
  IN /\ q.kind = "consume" /\ q.pc = "saveDownload"
     /\ \E ts \in ClockReads(now, 3) :
          /\ Advance(ts)
          /\ reqs' = [reqs EXCEPT ![r] =
               [q EXCEPT !.pc = "saveUser",
                         !.user = incrementDownloadCount(q.user, q.pid, ts)]]
     /\ out' = NoResp
     /\ UNCHANGED <<users, products, downloads>>

ConflictResp == [code |-> 500, outcome |-> "Internal", cause |-> "conflict"]
FailureResp == [code |-> 500, outcome |-> "Internal", cause |-> "failure"]

\* this.save() of incrementDownloadCount returns: the user document is
\* written in the transaction, or the write conflicts and the route's catch
\* aborts; then product.downloads + 1 and the issue of product.save.
ConsumeSaveUser(r) ==
  LET q == reqs[r]
      nx == IF WriteConflict(r, UserKey(q.uid))
            THEN Reply(q, "aborted", ConflictResp)
            ELSE Go([q EXCEPT !.pc = "saveProduct",
                              !.wrote = @ \cup {UserKey(q.uid)},
                              !.product = [q.product EXCEPT !.downloads = @ + 1]])
  IN /\ q.kind = "consume" /\ q.pc = "saveUser"
     /\ reqs' = [reqs EXCEPT ![r] = nx.q]
     /\ out' = nx.out
     /\ UNCHANGED <<clock, users, products, downloads>>

\* product.save({session}) returns; then the issue of commitTransaction.
ConsumeSaveProduct(r) ==
  LET q == reqs[r]
      nx == IF WriteConflict(r, ProductKey(q.pid))
            THEN Reply(q, "aborted", ConflictResp)
            ELSE Go([q EXCEPT !.pc = "commit",
                              !.wrote = @ \cup {ProductKey(q.pid)}])
  IN /\ q.kind = "consume" /\ q.pc = "saveProduct"
     /\ reqs' = [reqs EXCEPT ![r] = nx.q]
     /\ out' = nx.out
     /\ UNCHANGED <<clock, users, products, downloads>>

\* session.commitTransaction() succeeds: the three buffered writes reach the
\* database together; then the second canDownload and the 200 response.
ConsumeCommit(r) ==
  LET q == reqs[r]
  IN /\ q.kind = "consume" /\ q.pc = "commit"
     /\ downloads' = downloads (+) SetToBag({q.dl})
     /\ users' = [users EXCEPT ![q.uid] = q.user]
     /\ products' = [products EXCEPT ![q.pid] = q.product]
     /\ \E ts \in ClockReads(now, 5) :
          LET nx == Reply(q, "committed",
                      [ code |-> 200, outcome |-> "Accepted",
                        downloadUrl |-> q.product.downloadUrl,
                        check |-> canDownload(q.user, ts).res, dl |-> q.dl ])
          IN /\ Advance(ts)
             /\ reqs' = [ MarkStale(reqs, r, {UserKey(q.uid), ProductKey(q.pid)})
                            EXCEPT ![r] = nx.q ]
             /\ out' = nx.out

\* An awaited database operation of the handler rejects (connection lost,
\* transaction expired): the catch block aborts the transaction and answers
\* 500.
ConsumeFail(r) ==
  LET q == reqs[r]
      nx == Reply(q, "aborted", FailureResp)
  IN /\ q.kind = "consume"
     /\ q.pc \in {"findUser", "findProduct", "findRecent", "saveDownload",
                  "saveUser", "saveProduct"}
     /\ reqs' = [reqs EXCEPT ![r] = nx.q]
     /\ out' = nx.out
     /\ UNCHANGED <<clock, users, products, downloads>>

\* session.commitTransaction() rejects and nothing is committed: the driver
\* holds the transaction for committed, so abortTransaction() in the catch
\* block throws in its turn and the handler ends without a response.
ConsumeCommitFail(r) ==
  LET q == reqs[r]
      nx == Reply(q, "rolledBack", [code |-> 0, outcome |-> "NoResponse"])
  IN /\ q.kind = "consume" /\ q.pc = "commit"
     /\ reqs' = [reqs EXCEPT ![r] = nx.q]
     /\ out' = nx.out
     /\ UNCHANGED <<clock, users, products, downloads>>

Consume(r) ==
  \/ \E uid \in Users, pid \in ProductIds : ConsumeStart(r, uid, pid)
  \/ /\ \/ ConsumeFindUser(r)
        \/ ConsumeFindProduct(r)
        \/ ConsumeFindRecent(r)
        \/ ConsumeSaveDownload(r)
        \/ ConsumeSaveUser(r)
        \/ ConsumeSaveProduct(r)
        \/ ConsumeCommit(r)
        \/ ConsumeFail(r)
        \/ ConsumeCommitFail(r)
     /\ UNCHANGED arrivals

\* ---------------------------------------- GET /api/download/status
\* User.findById, canDownload on the loaded document and the response.  The
\* route saves only `if (downloadStatus.dailyReset || downloadStatus
\* .monthlyReset)`: canDownload returns the two flags inside resetInfo, not
\* at the top level, so both are undefined and the document is never saved.
Status(uid) ==
  /\ arrivals.ops > 0
  /\ arrivals' = [arrivals EXCEPT !.ops = @ - 1]
  /\ \E ts \in ClockReads(now, 5) :
       /\ Advance(ts)
       /\ out' = [ NoResp EXCEPT !.code = 200, !.outcome = "Status",
                                 !.kind = "status", !.uid = uid ]
                   @@ [check |-> canDownload(users[uid], ts).res]
  /\ UNCHANGED <<users, products, downloads, reqs>>

\* ---------------------------------------- GET /api/download/history
\* User.findById, Download.find / countDocuments and canDownload on the
\* loaded document; nothing is saved.
History(uid) ==
  /\ arrivals.ops > 0
  /\ arrivals' = [arrivals EXCEPT !.ops = @ - 1]
  /\ \E ts \in ClockReads(now, 5) :
       /\ Advance(ts)
       /\ out' = [ NoResp EXCEPT !.code = 200, !.outcome = "History",
                                 !.kind = "history", !.uid = uid ]
                   @@ [ check |-> canDownload(users[uid], ts).res,
                        total |-> BagCardinality(
                          [ d \in { e \in BagToSet(downloads) : e.userId = uid }
                              |-> CopiesIn(d, downloads) ]) ]
  /\ UNCHANGED <<users, products, downloads, reqs>>

\* ------------------- GET /api/user/stats and GET /api/user/download-status
QuotaPaths ==
  {"dailyDownloads", "dailyDownloadDate", "monthlyDownloads", "monthlyDownloadMonth"}

\* The paths of the document mongoose holds for modified after `old` became
\* `new` in memory
Modified(old, new) == { f \in QuotaPaths : old[f] # new[f] }

\* A save that writes the whole document held in memory
SaveWholeDocument(doc, local, paths) == local

\* document.save() outside a transaction: updateOne with $set of the
\* modified paths only
SavePaths(doc, local, paths) ==
  [ f \in DOMAIN doc |-> IF f \in paths THEN local[f] ELSE doc[f] ]

\* The 500 answer of the outer catch of GET /api/user/stats
StatsErrorResp ==
  [ code |-> 500, outcome |-> "StatsError",
    stats |-> [ totalDownloads |-> 0, downloadsToday |-> 0, downloadsThisWeek |-> 0,
                downloadsThisMonth |-> 0, remainingToday |-> 10, canDownload |-> TRUE ] ]

\* The 500 answer of the catch of GET /api/user/download-status
DlStatusErrorResp == [code |-> 500, outcome |-> "DlStatusError"]

UserReadStart(r, kind, uid) ==
  /\ FreeSlot(r)
  /\ arrivals' = [arrivals EXCEPT !.ops = @ - 1]
  /\ reqs' = [reqs EXCEPT ![r] =
       [IdleReq EXCEPT !.kind = kind, !.uid = uid, !.pc = "findUser"]]
  /\ out' = NoResp
  /\ UNCHANGED <<clock, users, products, downloads>>

\* User.findById returns; const wasReset =
\* user.resetDailyDownloadsIfNeeded() on the loaded document; the
\* countDocuments queries are issued.
UserReadFindUser(r) ==
  LET q == reqs[r]
      u == users[q.uid]
  IN /\ q.kind \in {"stats", "dlstatus"} /\ q.pc = "findUser"
     /\ \E ts \in ClockReads(now, 1) :
          LET d == resetDailyDownloadsIfNeeded(u, ts[1])
              v == d.u
          IN /\ Advance(ts)
             /\ reqs' = [reqs EXCEPT ![r] =
                  [q EXCEPT !.pc = "count", !.user = v, !.dirty = Modified(u, v),
                            !.wasReset = d.wasReset]]
     /\ out' = NoResp
     /\ UNCHANGED <<users, products, downloads, arrivals>>

\* The countDocuments queries return.  user.downloadsToday is no path of
\* the schema, so `user.downloadsToday !== todayDownloads` holds whatever
\* was counted, and user.save() is issued.
UserReadCount(r) ==
  LET q == reqs[r]
  IN /\ q.kind \in {"stats", "dlstatus"} /\ q.pc = "count"
     /\ reqs' = [reqs EXCEPT ![r] = [q EXCEPT !.pc = "save"]]
     /\ out' = NoResp
     /\ UNCHANGED <<clock, users, products, downloads, arrivals>>

\* user.save() returns: the modified paths are written.  Then canDownload
\* on the document in memory, and user.getRemainingDownloads(), which the
\* schema does not define: the TypeError ends download-status with 500; in
\* stats the inner catch saves once more (pc "resave"), and after that save
\* the same TypeError ends the handler in the outer catch.
UserReadSave(r) ==
  LET q == reqs[r]
      u == users[q.uid]
  IN /\ q.kind \in {"stats", "dlstatus"} /\ q.pc \in {"save", "resave"}
     /\ q.dirty # {} => CanWrite(r, UserKey(q.uid))
     /\ users' = [users EXCEPT ![q.uid] = SavePaths(u, q.user, q.dirty)]
     /\ \E ts \in ClockReads(now, 5) :
          LET downloadCheck == canDownload(q.user, ts)
              v == downloadCheck.u
              nx == IF q.kind = "dlstatus" THEN Reply(q, "none", DlStatusErrorResp)
                    ELSE IF q.pc = "resave" THEN Reply(q, "none", StatsErrorResp)
                    ELSE Go([q EXCEPT !.pc = "resave", !.user = v,
                                      !.dirty = Modified(q.user, v),
                                      !.check = downloadCheck.res])
          IN /\ Advance(ts)
             /\ reqs' = [ (IF q.dirty # {} THEN MarkStale(reqs, r, {UserKey(q.uid)})
                           ELSE reqs) EXCEPT ![r] = nx.q ]
             /\ out' = nx.out
     /\ UNCHANGED <<products, downloads, arrivals>>

UserRead(r) ==
  \/ \E uid \in Users, kind \in {"stats", "dlstatus"} : UserReadStart(r, kind, uid)
  \/ UserReadFindUser(r)
  \/ UserReadCount(r)
  \/ UserReadSave(r)

\* ------------------------------------------------ subscription and identity
\* An operation that is a single write arrives
Arrive ==
  /\ arrivals.ops > 0 /\ arrivals.changes > 0
  /\ arrivals' = [ops |-> arrivals.ops - 1, changes |-> arrivals.changes - 1]
  /\ out' = NoResp

\* userSchema.methods.updatePremiumSubscription(durationInDays = 30)
updatePremiumSubscription(uid) ==
  /\ Arrive
  /\ CanWrite(0, UserKey(uid))
  /\ users' = [users EXCEPT ![uid] =
       [ @ EXCEPT !.subscription = "premium",
                  !.premiumExpiry = now + PremiumDurationDays * MinutesPerDay ]]
  /\ reqs' = MarkStale(reqs, 0, {UserKey(uid)})
  /\ UNCHANGED <<clock, products, downloads>>

\* userSchema.methods.cancelPremiumSubscription
cancelPremiumSubscription(uid) ==
  /\ Arrive
  /\ CanWrite(0, UserKey(uid))
  /\ users' = [users EXCEPT ![uid] =
       [@ EXCEPT !.subscription = "free", !.premiumExpiry = now]]
  /\ reqs' = MarkStale(reqs, 0, {UserKey(uid)})
  /\ UNCHANGED <<clock, products, downloads>>

\* A sweep that takes the accounts expiring at this instant too
ExpiredPremiumInclusive ==
  { u \in Users : users[u].subscription = "premium"
                  /\ users[u].premiumExpiry # NoDate /\ users[u].premiumExpiry <= now }

\* userSchema.statics.resetExpiredPremiumSubscriptions: updateMany of the
\* premium accounts whose premiumExpiry is before now; it returns the
\* result of updateMany
ExpiredPremium ==
  { u \in Users : users[u].subscription = "premium"
                  /\ users[u].premiumExpiry # NoDate /\ users[u].premiumExpiry < now }

resetExpiredPremiumSubscriptions ==
  /\ arrivals.ops > 0 /\ arrivals.changes > 0
  /\ arrivals' = [ops |-> arrivals.ops - 1, changes |-> arrivals.changes - 1]
  /\ out' = [NoResp EXCEPT !.kind = "sweep"]
             @@ [modifiedCount |-> Cardinality(ExpiredPremium)]
  /\ \A u \in ExpiredPremium : CanWrite(0, UserKey(u))
  /\ users' = [ u \in Users |->
                  IF u \in ExpiredPremium
                  THEN [users[u] EXCEPT !.subscription = "free"] ELSE users[u] ]
  /\ reqs' = MarkStale(reqs, 0, {UserKey(u) : u \in ExpiredPremium})
  /\ UNCHANGED <<clock, products, downloads>>

\* POST /api/auth/verify-otp with the right OTP: user.isVerified = true
VerifyOtp(uid) ==
  /\ Arrive
  /\ ~users[uid].isVerified
  /\ CanWrite(0, UserKey(uid))
  /\ users' = [users EXCEPT ![uid] = [@ EXCEPT !.isVerified = TRUE]]
  /\ reqs' = MarkStale(reqs, 0, {UserKey(uid)})
  /\ UNCHANGED <<clock, products, downloads>>

\* ------------------------------------------------------------ the catalogue
\* PUT /api/products/:id with a new downloadUrl (admin)
UpdateProduct(pid, url) ==
  /\ Arrive
  /\ products[pid] # NoDoc
  /\ products[pid].downloadUrl # url
  /\ CanWrite(0, ProductKey(pid))
  /\ products' = [products EXCEPT ![pid] = [@ EXCEPT !.downloadUrl = url]]
  /\ reqs' = MarkStale(reqs, 0, {ProductKey(pid)})
  /\ UNCHANGED <<clock, users, downloads>>

\* DELETE /api/products/:id (admin): Product.findByIdAndDelete
DeleteProduct(pid) ==
  /\ Arrive
  /\ products[pid] # NoDoc
  /\ CanWrite(0, ProductKey(pid))
  /\ products' = [products EXCEPT ![pid] = NoDoc]
  /\ reqs' = MarkStale(reqs, 0, {ProductKey(pid)})
  /\ UNCHANGED <<clock, users, downloads>>

\* POST /api/products/:id/download: product.downloads + 1 and save, with no
\* quota check and no Download document
TrackDownload(pid) ==
  /\ Arrive
  /\ products[pid] # NoDoc /\ products[pid].isActive
  /\ CanWrite(0, ProductKey(pid))
  /\ products' = [products EXCEPT ![pid] = [@ EXCEPT !.downloads = @ + 1]]
  /\ reqs' = MarkStale(reqs, 0, {ProductKey(pid)})
  /\ UNCHANGED <<clock, users, downloads>>

\* ------------------------------- POST /api/chatbot/download/:productId
ChatbotDailyLimit == 10

\* The payload of the token generateToken signs: { userId }
TokenOf(uid) == [userId |-> uid]
\* req.user.id: the `id` member of the decoded token
TokenId(token) == IF "id" \in DOMAIN token THEN token.id ELSE "undefined"
\* User.findById(id): null for an id that is undefined or unknown
FindUserById(id) == IF id \in Users THEN users[id] ELSE NoDoc

\* The whole handler.  The auth middleware has found the user of
\* decoded.userId; the handler looks the user up by req.user.id, which a
\* token of generateToken does not carry, so User.findById returns null and
\* the request ends with 404 before the limit of 10, the push to
\* user.downloads and the product.downloads + 1 that follow in the code.
ChatbotDownload(uid, pid) ==
  LET product == products[pid]
      user == FindUserById(TokenId(TokenOf(uid)))
      resp(code, outcome) ==
        [ NoResp EXCEPT !.code = code, !.outcome = outcome,
                        !.kind = "chatbot", !.uid = uid, !.pid = pid ]
      todayDownloads ==
        BagCardinality(
          [ e \in { d \in BagToSet(user.downloads) :
                      StartOfDay(d.downloadedAt) = StartOfDay(now) }
              |-> CopiesIn(e, user.downloads) ])
      alreadyDownloadedToday ==
        \E d \in BagToSet(user.downloads) :
           StartOfDay(d.downloadedAt) = StartOfDay(now) /\ d.productId = pid
  IN /\ arrivals.ops > 0
     /\ arrivals' = [arrivals EXCEPT !.ops = @ - 1]
     /\ IF product = NoDoc
        THEN /\ out' = resp(404, "NotFound")
             /\ UNCHANGED <<users, products, reqs>>
        ELSE IF ~product.isActive
        THEN /\ out' = resp(400, "Unavailable")
             /\ UNCHANGED <<users, products, reqs>>
        ELSE IF user = NoDoc
        THEN /\ out' = resp(404, "NotFound")
             /\ UNCHANGED <<users, products, reqs>>
        ELSE IF todayDownloads >= ChatbotDailyLimit
        THEN /\ out' = resp(429, "ChatLimit")
                         @@ [nextResetTime |-> StartOfTomorrow(now)]
             /\ UNCHANGED <<users, products, reqs>>
        ELSE IF alreadyDownloadedToday
        THEN /\ out' = resp(200, "ChatRedownload")
             /\ UNCHANGED <<users, products, reqs>>
        ELSE /\ out' = resp(200, "ChatDownload")
             /\ users' = [users EXCEPT ![TokenId(TokenOf(uid))] =
                  [ @ EXCEPT !.downloads = @ (+) SetToBag(
                      {[productId |-> pid, downloadedAt |-> now]}) ]]
             /\ products' = [products EXCEPT ![pid] = [@ EXCEPT !.downloads = @ + 1]]
             /\ reqs' = MarkStale(reqs, 0, {UserKey(uid), ProductKey(pid)})
     /\ UNCHANGED <<clock, downloads>>

Environment ==
  \/ \E uid \in Users : Status(uid)
  \/ \E uid \in Users : History(uid)
  \/ \E uid \in Users : updatePremiumSubscription(uid)
  \/ \E uid \in Users : cancelPremiumSubscription(uid)
  \/ resetExpiredPremiumSubscriptions
  \/ \E uid \in Users : VerifyOtp(uid)
  \/ \E pid \in Products, url \in Urls : UpdateProduct(pid, url)
  \/ \E pid \in Products : DeleteProduct(pid)
  \/ \E pid \in Products : TrackDownload(pid)
  \/ \E uid \in Users, pid \in Products : ChatbotDownload(uid, pid)

\* --------------------------------------------------------- specifications
Next ==
  \/ Tick
  \/ \E r \in Slots : Consume(r)
  \/ \E r \in Slots : UserRead(r)
  \/ Environment

\* One request at a time
Starts ==
  { [ps |-> FreeAtBoth, at |-> Day0 + 60],
    [ps |-> FreeAtBoth, at |-> Day0 + MinutesPerDay - 1],
    [ps |-> FreeAtBoth, at |-> Day0 + 2 * MinutesPerDay - 1],
    [ps |-> FreeAtDaily, at |-> Day0 + 60],
    [ps |-> FreeAtMonthly, at |-> Day0 + 60],
    [ps |-> PremiumExpiring, at |-> Day0 + MinutesPerDay],
    [ps |-> PremiumExpired, at |-> Day0 + MinutesPerDay - 1],
    [ps |-> Fresh, at |-> Day0 + MinutesPerDay - 1] }

Init == InitWith(Starts, 1, MaxArrivals, MaxChanges, MaxTicks)

Spec == Init /\ [][Next]_vars

\* Concurrent requests
ConcStarts ==
  { [ps |-> FreeAtBoth, at |-> Day0 + 60],
    [ps |-> FreeAtDaily, at |-> Day0 + 60],
    [ps |-> FreeAtDaily, at |-> Day0 + MinutesPerDay - 1],
    [ps |-> PremiumExpiring, at |-> Day0 + MinutesPerDay],
    [ps |-> Fresh, at |-> Day0 + 60] }

InitConc == InitWith(ConcStarts, MaxReqs, ConcArrivals, MaxChanges, MaxTicks)

SpecConc == InitConc /\ [][Next]_vars

\* A day on which a statistics request is slow: the account of FreeAtDaily
\* after its 14 downloads of the first day, and one GET /api/user/stats that
\* loaded the document just after midnight, before the first of them, and
\* still awaits its countDocuments queries.
MorningUser ==
  [ PresetUser(FreeAtDaily) EXCEPT
      !.dailyDownloads = PresetCount(FreeAtDaily, Day0 - MinutesPerDay),
      !.dailyDownloadDate = Day0 - MinutesPerDay ]

SlowStats ==
  [ IdleReq EXCEPT
      !.kind = "stats", !.uid = "u1", !.pc = "count",
      !.user = resetDailyDownloadsIfNeeded(MorningUser, Day0 + 1).u,
      !.dirty = Modified(MorningUser, resetDailyDownloadsIfNeeded(MorningUser, Day0 + 1).u),
      !.wasReset = resetDailyDownloadsIfNeeded(MorningUser, Day0 + 1).wasReset ]

InitRace ==
  /\ now = Day0 + 60
  /\ InitPreset(FreeAtDaily)
  /\ ticks = MaxTicks
  /\ out = NoResp
  /\ arrivals = [ops |-> ConcArrivals, changes |-> 0]
  /\ reqs = [r \in 1 .. MaxReqs |-> IF r = 1 THEN SlowStats ELSE IdleReq]

NextRace ==
  \/ Tick
  \/ \E r \in Slots : Consume(r)
  \/ \E r \in Slots : UserRead(r)

SpecRace == InitRace /\ [][NextRace]_vars

\* The turn of the month: an account that downloads on the last day of the
\* month, and one registered two days before its end
MonthStarts ==
  { [ps |-> FreeAtDaily, at |-> Day0 + MinutesPerDay + 10],
    [ps |-> Fresh, at |-> Day0 + 2 * MinutesPerDay - 1] }

InitMonth == InitWith(MonthStarts, 1, MaxArrivals, MaxChanges, MaxTicks)

SpecMonth == InitMonth /\ [][Next]_vars

\* The handler of the consume request in flight in slot r takes its next
\* step: the promise it awaits settles and the event loop runs the
\* continuation
Handle(r) == r \in Slots /\ reqs[r].kind = "consume" /\ Consume(r)

\* A run in which no awaited promise of a consume handler stays pending
\* for ever: every database operation settles, with a result or an error
SpecLive == InitMonth /\ [][Next]_vars /\ WF_vars(Handle(1))

\* ------------------------------------------------ the reporting statics
\* The sum of field f over the accounts S
RECURSIVE SumField(_, _)
SumField(S, f) ==
  IF S = {} THEN 0
  ELSE LET u == CHOOSE x \in S : TRUE
       IN users[u][f] + SumField(S \ {u}, f)

\* userSchema.statics.getGlobalStats: one $group over the verified accounts
\* of the counts as they are stored (an aggregation with no match returns
\* no row); averageDownloadsPerUser is left out.
getGlobalStats ==
  LET matched == { u \in Users : users[u].isVerified }
      row == [ totalUsers |-> Cardinality(matched),
               totalDownloads |-> SumField(matched, "totalDownloads"),
               totalDailyDownloads |-> SumField(matched, "dailyDownloads"),
               totalMonthlyDownloads |-> SumField(matched, "monthlyDownloads"),
               premiumUsers |->
                 Cardinality({u \in matched : users[u].subscription = "premium"}),
               freeUsers |->
                 Cardinality({u \in matched : users[u].subscription = "free"}) ]
  IN /\ arrivals.ops > 0
     /\ arrivals' = [arrivals EXCEPT !.ops = @ - 1]
     /\ out' = [ NoResp EXCEPT !.code = 200, !.outcome = "GlobalStats",
                               !.kind = "globalStats" ]
                 @@ [rows |-> IF matched = {} THEN <<>> ELSE <<row>>]
     /\ UNCHANGED <<clock, users, products, downloads, reqs>>

Periods == {"daily", "monthly", "total"}
TopLimit == 10

\* $sort: { downloadCount: -1 } of the projected rows
RECURSIVE SortedRows(_)
SortedRows(rows) ==
  IF rows = {} THEN <<>>
  ELSE LET top == CHOOSE x \in rows : \A y \in rows : x.downloadCount >= y.downloadCount
       IN <<top>> \o SortedRows(rows \ {top})

\* userSchema.statics.getTopDownloaders(limit, period): $match, $project of
\* the three stored counts, $sort and $limit
getTopDownloaders(limit, period) ==
  /\ arrivals.ops > 0
  /\ arrivals' = [arrivals EXCEPT !.ops = @ - 1]
  /\ \E ts \in IF period = "total" THEN {<<now>>} ELSE ClockReads(now, 1) :
       LET sortField == IF period = "daily" THEN "dailyDownloads"
                        ELSE IF period = "monthly" THEN "monthlyDownloads"
                        ELSE "totalDownloads"
           matched ==
             { u \in Users :
                 /\ users[u].isVerified
                 /\ period = "daily" =>
                      /\ users[u].dailyDownloadDate # NoDate
                      /\ users[u].dailyDownloadDate >= StartOfDay(ts[1])
                 /\ period = "monthly" =>
                      users[u].monthlyDownloadMonth = MonthToken(ts[1]) }
           rows == { [ uid |-> u,
                       totalDownloads |-> users[u].totalDownloads,
                       dailyDownloads |-> users[u].dailyDownloads,
                       monthlyDownloads |-> users[u].monthlyDownloads,
                       subscription |-> users[u].subscription,
                       downloadCount |-> users[u][sortField] ] : u \in matched }
           sorted == SortedRows(rows)
       IN /\ Advance(ts)
          /\ out' = [ NoResp EXCEPT !.code = 200, !.outcome = "TopDownloaders",
                                    !.kind = period ]
                      @@ [rows |-> SubSeq(sorted, 1, Min(limit, Len(sorted)))]
  /\ UNCHANGED <<users, products, downloads, reqs>>

\* The handlers, and the reporting statics called beside them
NextReport ==
  \/ Next
  \/ getGlobalStats
  \/ \E period \in Periods : getTopDownloaders(TopLimit, period)

SpecReport == InitMonth /\ [][NextReport]_vars

\* ------------------------------------------------------------------ claims
\* The request in slot r answers Accepted in this step
Accepts(r) ==
  /\ reqs[r].kind = "consume" /\ reqs[r].pc = "commit"
  /\ reqs'[r].pc = "done"
  /\ out'.outcome = "Accepted"

\* The Download documents of subject u dated on the calendar day of instant t
DownloadsOn(u, t) ==
  BagCardinality(
    [ d \in { e \in BagToSet(downloads) : e.userId = u /\ DayOf(e.downloadDate) = DayOf(t) }
        |-> CopiesIn(d, downloads) ])

\* C1 as stated: in every persisted state the monthly count of every subject
\* is at most the monthly limit in effect for it now (500 for a premium
\* subscription that expires after now, 350 otherwise).
MonthlyCountWithinEffectiveLimit ==
  \A u \in Users : users[u].monthlyDownloads <= MonthlyLimitOf(users[u], now)

\* C1 amended: the monthly count never exceeds the premium limit of 500, and
\* it rises only by an Accepted consume whose own check read it below the
\* limit in effect for the account at an instant of that request, so that it
\* ends at most at that limit; a subscription that ends leaves the count it
\* has reached.
AcceptedOnlyBelowMonthlyLimit ==
  [][ \A u \in Users :
        /\ users'[u].monthlyDownloads <= PremiumMonthlyLimit
        /\ users'[u].monthlyDownloads > users[u].monthlyDownloads =>
             \E r \in Slots :
               /\ Accepts(r) /\ reqs[r].uid = u
               /\ reqs[r].check.monthly.used < reqs[r].check.monthly.limit
               /\ users'[u].monthlyDownloads <= reqs[r].check.monthly.limit
               /\ \E t \in TimePoints :
                    /\ t <= now
                    /\ reqs[r].check.monthly.limit = MonthlyLimitOf(reqs[r].user, t)
    ]_vars

\* C1 witness: a consume was Accepted and took the account to its monthly
\* limit exactly
AcceptedAtMonthlyLimit ==
  /\ out.outcome = "Accepted"
  /\ users[out.uid].monthlyDownloads = out.check.monthly.limit
  /\ out.check.monthly.remaining = 0

\* C2 as stated: the persisted daily count of every subject is at most 15,
\* and no subject has more than 15 Download documents dated on one calendar
\* day.
NoSixteenthDownloadOnOneDay ==
  \A u \in Users :
    /\ users[u].dailyDownloads <= DailyLimit
    /\ \A d \in BagToSet(downloads) : DownloadsOn(u, d.downloadDate) <= DailyLimit

\* The step commits, for the request in slot r, one new Download document
\* of its subject and product, one more embedded history entry, and one
\* more on the daily, monthly and lifetime counts of the subject (each
\* counted from 0 when the step also rolls its window over) and on the
\* downloads counter of the product, and nothing else.
AcceptedWrites(r) ==
  LET q == reqs[r]
      u == users[q.uid]
      v == users'[q.uid]
      daily == IF v.dailyDownloadDate = u.dailyDownloadDate THEN u.dailyDownloads ELSE 0
      monthly == IF v.monthlyDownloadMonth = u.monthlyDownloadMonth
                 THEN u.monthlyDownloads ELSE 0
  IN /\ downloads' = downloads (+) SetToBag({out'.dl})
     /\ out'.dl.userId = q.uid /\ out'.dl.productId = q.pid
     /\ v.dailyDownloads = daily + 1
     /\ v.monthlyDownloads = monthly + 1
     /\ v.totalDownloads = u.totalDownloads + 1
     /\ BagCardinality(v.downloads) = BagCardinality(u.downloads) + 1
     /\ products[q.pid] # NoDoc
     /\ products'[q.pid] = [products[q.pid] EXCEPT !.downloads = @ + 1]
     /\ \A o \in Users \ {q.uid} : users'[o] = users[o]
     /\ \A o \in Products \ {q.pid} : products'[o] = products[o]

\* The handler of the consume request in slot r takes a step
ConsumeStep(r) == reqs[r].kind = "consume" /\ reqs'[r].pc # reqs[r].pc

\* The Download documents of subject u
DownloadsOf(u) ==
  BagCardinality(
    [ d \in { e \in BagToSet(downloads) : e.userId = u } |-> CopiesIn(d, downloads) ])

\* C3: every Accepted consume adds exactly one Download document and raises
\* the daily, monthly and lifetime counts of the subject and the downloads
\* counter of the product by exactly 1 each.
AcceptedCountsOnce ==
  [][\A r \in Slots : Accepts(r) => AcceptedWrites(r)]_vars

\* C3 witness: a consume was Accepted as the first of a new day, in a month
\* that already had downloads
AcceptedAfterRollover ==
  /\ out.outcome = "Accepted"
  /\ out.check.daily.used = 1
  /\ out.check.monthly.used > 1
  /\ users[out.uid].dailyDownloads = 1

\* The consume request in slot r answers in this step, not with a failure
\* of the database, while the database holds a Download document of its
\* subject and product that is at most 30 minutes old
AnswersWithinWindow(r) ==
  /\ reqs[r].kind = "consume" /\ reqs[r].pc # "done" /\ reqs'[r].pc = "done"
  /\ out'.outcome \notin {"Internal", "NoResponse"}
  /\ \E d \in BagToSet(downloads) :
       /\ d.userId = reqs[r].uid /\ d.productId = reqs[r].pid
       /\ now' - d.downloadDate <= DedupMinutes

\* C4 as stated: a consume that follows one of the same subject and product
\* within 30 minutes is Replayed with the downloadUrl of the first, and adds
\* no Download document and no increment.
SecondCallReplayed ==
  [][ \A r \in Slots : AnswersWithinWindow(r) =>
        /\ out'.outcome = "Replayed"
        /\ Db' = Db
        /\ \E d \in BagToSet(downloads) :
             /\ d.userId = reqs[r].uid /\ d.productId = reqs[r].pid
             /\ out'.downloadUrl = d.downloadUrl
    ]_vars

\* C4 amended: a consume that follows one of the same subject and product
\* within 30 minutes adds no Download document and no increment; it is
\* Denied when the quota gate, which runs first, finds the subject
\* ineligible, NotFound when the product has left the catalogue, and
\* otherwise Replayed with the downloadUrl the product has now.
SecondCallNeverCounted ==
  [][ \A r \in Slots : AnswersWithinWindow(r) =>
        /\ Db' = Db
        /\ \/ out'.outcome = "Denied" /\ ~out'.check.canDownload
           \/ /\ out'.outcome = "NotFound"
              /\ \/ reqs[r].snap.products[reqs[r].pid] = NoDoc
                 \/ ~reqs[r].snap.products[reqs[r].pid].isActive
           \/ /\ out'.outcome = "Replayed"
              /\ out'.check.canDownload
              /\ out'.downloadUrl = reqs[r].snap.products[reqs[r].pid].downloadUrl
    ]_vars

\* C4 witness: the second consume of a product within 30 minutes was Denied,
\* the first having used up the quota
SecondCallDenied ==
  /\ out.outcome = "Denied"
  /\ \E d \in BagToSet(downloads) :
       /\ d.userId = out.uid /\ d.productId = out.pid
       /\ now - d.downloadDate <= DedupMinutes

\* C5: a step of a consume handler leaves the database as it is, or it is
\* the commit of an Accepted consume and makes all four writes; so a consume
\* that fails leaves none of them.
ConsumeAllOrNothing ==
  [][ \A r \in Slots : ConsumeStep(r) =>
        \/ Db' = Db
        \/ Accepts(r) /\ AcceptedWrites(r)
    ]_vars

\* C5 witness: the save of the product failed after the Download document
\* and the user document had been written in the transaction
FailedAfterTwoWrites ==
  /\ out.outcome = "Internal" /\ out.cause = "failure"
  /\ out.at = "saveProduct" /\ out.tx = "aborted"

\* C6: an Accepted consume overwrites the very documents it read (no
\* commit came between its read and its own) and raises each count of the
\* committed document by one, so no update is lost: the lifetime count is
\* the number of Download documents, and the daily count an Accepted leaves
\* is at most 15, so two requests that read it at 14 are not both Accepted.
NoLostUpdate ==
  [][ /\ \A r \in Slots : Accepts(r) =>
           /\ users[reqs[r].uid] = reqs[r].snap.users[reqs[r].uid]
           /\ products[reqs[r].pid] = reqs[r].snap.products[reqs[r].pid]
           /\ AcceptedWrites(r)
           /\ users'[reqs[r].uid].totalDownloads
                = reqs[r].snap.users[reqs[r].uid].totalDownloads + 1
           /\ users'[reqs[r].uid].dailyDownloads <= DailyLimit
      /\ \A u \in Users : users'[u].totalDownloads = DownloadsOf(u)'
    ]_vars

\* C6 witness: of two requests that both read the daily count at 14, one
\* was Accepted and the other is still on its way
AcceptedBesideStaleReader ==
  /\ out.outcome = "Accepted"
  /\ users[out.uid].dailyDownloads = DailyLimit
  /\ \E r \in Slots :
       /\ reqs[r].kind = "consume" /\ reqs[r].uid = out.uid
       /\ reqs[r].pc \in {"saveDownload", "saveUser"}
       /\ reqs[r].check.daily.used = DailyLimit - 1

\* C7: of one subject and one product of the catalogue there are never two
\* Download documents within 30 minutes of each other.
OneRecordPerWindow ==
  \A d \in BagToSet(downloads), e \in BagToSet(downloads) :
    (d.productId \in Products /\ d.userId = e.userId /\ d.productId = e.productId) =>
      /\ CopiesIn(d, downloads) = 1
      /\ d # e => ( d.downloadDate - e.downloadDate > DedupMinutes
                    \/ e.downloadDate - d.downloadDate > DedupMinutes )

\* C7 witness: two requests of one subject for one product both found no
\* recent download; one was Accepted and the other is still on its way
AcceptedBesideTwin ==
  /\ out.outcome = "Accepted"
  /\ \E r \in Slots :
       /\ reqs[r].kind = "consume" /\ reqs[r].uid = out.uid /\ reqs[r].pid = out.pid
       /\ reqs[r].pc \in {"saveDownload", "saveUser"}

\* C8: a consume that is Denied, or refused as unverified, changes no
\* document of the database.
DeniedChangesNothing ==
  [][out'.outcome \in {"Denied", "Unverified"} => Db' = Db]_vars

\* C8 witness: a consume was Denied after canDownload had reset the daily
\* count in memory, and the database still holds the count of the day before
DeniedWithResetPending ==
  /\ out.outcome = "Denied"
  /\ out.check.resetInfo.dailyReset
  /\ users[out.uid].dailyDownloads = DailyLimit

\* The snapshot of the request in slot r holds a Download document of its
\* subject and product dated at most 30 minutes before the instant its
\* handler read for the lookup
RecordWithinWindow(r) ==
  \E d \in BagToSet(reqs[r].snap.downloads) :
     /\ d.userId = reqs[r].uid /\ d.productId = reqs[r].pid
     /\ (reqs[r].cutoff + DedupMinutes) - d.downloadDate <= DedupMinutes

\* C9: when the lookup of an eligible subject's consume returns, the answer
\* is Replayed exactly if there is a Download document of the subject and
\* product at most 30 minutes old (30 included), short of a failure of the
\* database; Replayed carries the downloadUrl of the product and changes no
\* document.
ReplayedWithinWindow ==
  [][ \A r \in Slots :
        (reqs[r].kind = "consume" /\ reqs[r].pc = "findRecent" /\ ConsumeStep(r)) =>
          /\ RecordWithinWindow(r) => out'.outcome \in {"Replayed", "Internal"}
          /\ out'.outcome = "Replayed" =>
               /\ RecordWithinWindow(r)
               /\ reqs[r].check.canDownload
               /\ out'.downloadUrl = reqs[r].snap.products[reqs[r].pid].downloadUrl
               /\ Db' = Db
    ]_vars

\* C9 witness: a consume was Replayed for a download exactly 30 minutes old
ReplayedAtBoundary ==
  /\ out.outcome = "Replayed"
  /\ \E d \in BagToSet(downloads) :
       /\ d.userId = out.uid /\ d.productId = out.pid
       /\ d.downloadDate + DedupMinutes = now

\* C10 as stated: whatever account canDownload is called on, it reports
\* canDownload exactly if the daily and the monthly remaining it reports are
\* both above 0.
EligibleIffBothRemain ==
  out.outcome \in {"Status", "History"} =>
    (out.check.canDownload <=>
       (out.check.daily.remaining > 0 /\ out.check.monthly.remaining > 0))

\* C10 amended: on a verified account canDownload reports canDownload
\* exactly if the daily and the monthly remaining it reports are both above
\* 0; on an unverified account it reports FALSE, with the full limits as
\* remaining.
VerifiedEligibleIffBothRemain ==
  out.outcome \in {"Status", "History"} =>
    IF users[out.uid].isVerified
    THEN out.check.canDownload <=>
           (out.check.daily.remaining > 0 /\ out.check.monthly.remaining > 0)
    ELSE /\ ~out.check.canDownload
         /\ out.check.requiresVerification
         /\ out.check.daily.remaining = DailyLimit
         /\ out.check.monthly.remaining = FreeMonthlyLimit

\* C10 witness: a status report with downloads left today, none left this
\* month, and canDownload FALSE
OnlyMonthlyExhausted ==
  /\ out.outcome = "Status"
  /\ ~out.check.canDownload
  /\ out.check.daily.remaining > 0
  /\ out.check.monthly.remaining = 0

DailyGateNamedFirst ==
  (out.outcome \in {"Status", "History", "Denied"} /\ ~out.check.canDownload
     /\ ~out.check.requiresVerification) =>
    LET gate == IF out.check.daily.remaining = 0 THEN "daily" ELSE "monthly"
    IN /\ gate = "monthly" => (out.check.daily.remaining > 0
                                 /\ out.check.monthly.remaining = 0)
       /\ out.check.reason = gate
       /\ out.outcome = "Denied" => out.resetInfo.type = gate

\* C12 witness: a consume took monthlyDownloads from 349 to 350 and a later
\* consume of the same day, with downloads left for the day, was Denied
\* citing the monthly gate
DeniedByMonthlyGateSameDay ==
  /\ out.outcome = "Denied"
  /\ out.resetInfo.type = "monthly" /\ out.check.reason = "monthly"
  /\ out.check.daily.remaining > 0
  /\ out.check.monthly.used = FreeMonthlyLimit
  /\ \E d \in BagToSet(downloads) :
       /\ d.userId = out.uid /\ d.productId \in Products
       /\ DayOf(d.downloadDate) = DayOf(now)

\* The Download documents of product p
RecordsOf(p) ==
  BagCardinality(
    [ d \in { e \in BagToSet(downloads) : e.productId = p } |-> CopiesIn(d, downloads) ])

\* C13 as stated: the downloads counter of every product of the catalogue
\* equals the number of Download documents of that product.
ResourceCounterCountsRecords ==
  \A p \in Products : products[p] # NoDoc => products[p].downloads = RecordsOf(p)

\* C14 as stated: every 429 response to a consume carries a resetInfo that
\* names the exhausted gate, with the instant of that gate's next reset
\* (the start of the next calendar day, or of the next calendar month) and
\* the countdown to it (in hours, or in days), both taken at an instant of
\* the request; none has an empty resetInfo.
DenialCarriesNextReset ==
  [][ out'.outcome = "Denied" =>
        /\ out'.resetInfo.type \in {"daily", "monthly"}
        /\ \E t1 \in {now, now'}, t2 \in {now, now'} :
             /\ t1 <= t2
             /\ out'.resetInfo.resetTime =
                  IF out'.resetInfo.type = "daily"
                  THEN StartOfTomorrow(t1) ELSE StartOfNextMonth(t1)
             /\ out'.resetInfo.countdown =
                  Ceil(out'.resetInfo.resetTime - t2,
                       IF out'.resetInfo.type = "daily"
                       THEN MinutesPerHour ELSE MinutesPerDay)
    ]_vars

\* The consume request in slot r ends in this step on a write conflict
EndsOnConflict(r) ==
  /\ reqs[r].kind = "consume" /\ reqs[r].pc \in {"saveUser", "saveProduct"}
  /\ reqs'[r].pc = "done"
  /\ WriteConflict(r, IF reqs[r].pc = "saveUser" THEN UserKey(reqs[r].uid)
                                                  ELSE ProductKey(reqs[r].pid))
  /\ out'.outcome = "Internal" => out'.cause = "conflict"

\* C15 as stated: a consume that ends on a write conflict aborts, leaves
\* the database as it was, and answers with a Conflict outcome that the
\* caller can tell from the answer to an infrastructure failure.
ConflictSurfacesAsConflict ==
  [][ \A r \in Slots : EndsOnConflict(r) =>
        /\ Db' = Db
        /\ out'.tx = "aborted"
        /\ <<out'.code, out'.outcome>> # <<FailureResp.code, FailureResp.outcome>>
    ]_vars

\* C16 as stated: a canDownload call (through the status or the history
\* route) for a verified account whose daily anchor is two calendar days
\* before today leaves the account with dailyDownloads = 0 and
\* dailyDownloadDate = the start of today, whatever the count was.
FirstCheckResetsStaleDay ==
  [][ \A u \in Users :
        ( /\ out'.outcome \in {"Status", "History"} /\ out'.uid = u
          /\ users[u].isVerified
          /\ DayOf(users[u].dailyDownloadDate) + 2 = DayOf(now) ) =>
          /\ users'[u].dailyDownloads = 0
          /\ users'[u].dailyDownloadDate = StartOfDay(now)
    ]_vars

\* C17 as stated: a statistics request of a subject with no consumption
\* history is answered with success and statistics that are all zero, not
\* with an error.
StatsOfNoHistoryAreZeros ==
  ( /\ out.kind = "stats" /\ out.outcome # "none"
    /\ DownloadsOf(out.uid) = 0 /\ users[out.uid].downloads = EmptyBag ) =>
    /\ out.code = 200
    /\ out.stats.totalDownloads = 0 /\ out.stats.downloadsToday = 0
    /\ out.stats.downloadsThisWeek = 0 /\ out.stats.downloadsThisMonth = 0

\* C18: the sweep of expired subscriptions sets the subscription of the
\* accounts that are premium with premiumExpiry before now to free and
\* changes nothing else: no count, no anchor, no other account, no product
\* and no Download document, also while a consume of the subject is under
\* way.
SweepTouchesTierOnly ==
  [][ out'.kind = "sweep" =>
        /\ \A u \in Users :
             users'[u] =
               [ users[u] EXCEPT !.subscription =
                   IF /\ users[u].subscription = "premium"
                      /\ users[u].premiumExpiry # NoDate
                      /\ users[u].premiumExpiry < now
                   THEN "free" ELSE @ ]
        /\ products' = products
        /\ downloads' = downloads
    ]_vars

\* C18 witness: the sweep has just ended the subscription of a subject
\* whose consume is under way in its transaction
SweptDuringConsume ==
  /\ out.kind = "sweep" /\ out.modifiedCount > 0
  /\ \E r \in Slots :
       /\ reqs[r].kind = "consume" /\ reqs[r].tx = "active"
       /\ reqs[r].snap # NoDoc
       /\ users[reqs[r].uid].subscription = "free"
       /\ reqs[r].snap.users[reqs[r].uid].subscription = "premium"

\* The handler of the statistics request in slot r calls
\* resetDailyDownloadsIfNeeded on the document it has just loaded
FirstResetCall(r) ==
  /\ reqs[r].kind \in {"stats", "dlstatus"}
  /\ reqs[r].pc = "findUser" /\ reqs'[r].pc = "count"

\* The anchor of document u is missing or its calendar day precedes that
\* of instant t
AnchorPrecedes(u, t) ==
  u.dailyDownloadDate = NoDate \/ DayOf(u.dailyDownloadDate) < DayOf(t)

\* C19 as stated: resetDailyDownloadsIfNeeded sets dailyDownloads = 0 and
\* dailyDownloadDate = the start of today exactly when the anchor's calendar
\* day precedes today's, leaves the document alone otherwise, and returns
\* true exactly when it performed the reset.
ResetReturnsWhetherReset ==
  [][ \A r \in Slots : FirstResetCall(r) =>
        \E t \in {now, now'} :
          LET u == users[reqs[r].uid]
              v == reqs'[r].user
          IN /\ v = IF AnchorPrecedes(u, t)
                    THEN [u EXCEPT !.dailyDownloads = 0,
                                   !.dailyDownloadDate = StartOfDay(t)]
                    ELSE u
             /\ reqs'[r].wasReset <=> AnchorPrecedes(u, t)
    ]_vars

\* C19 amended: the reset is performed exactly when the anchor's calendar
\* day precedes today's; the return value is true exactly when the reset
\* was performed and the count it cleared was above 0.
ResetReturnsWhetherCountCleared ==
  [][ \A r \in Slots : FirstResetCall(r) =>
        \E t \in {now, now'} :
          LET u == users[reqs[r].uid]
              v == reqs'[r].user
          IN /\ v = IF AnchorPrecedes(u, t)
                    THEN [u EXCEPT !.dailyDownloads = 0,
                                   !.dailyDownloadDate = StartOfDay(t)]
                    ELSE u
             /\ reqs'[r].wasReset <=> (AnchorPrecedes(u, t) /\ u.dailyDownloads > 0)
    ]_vars

\* C19 witness: the call moved the anchor of an account with no downloads
\* to today and returned false
ResetOfZeroCountUnreported ==
  \E r \in Slots :
    /\ reqs[r].kind \in {"stats", "dlstatus"} /\ reqs[r].pc = "count"
    /\ "dailyDownloadDate" \in reqs[r].dirty
    /\ reqs[r].user.dailyDownloadDate = StartOfDay(now)
    /\ users[reqs[r].uid].dailyDownloads = 0
    /\ ~reqs[r].wasReset

\* C20: when a handler calls resetDailyDownloadsIfNeeded again on a
\* document it has called it on before, on the same calendar day, the later
\* call changes neither dailyDownloads nor dailyDownloadDate and returns
\* false: so for the canDownload that follows the first call in a
\* statistics handler, and for the canDownload that follows the gate and
\* the increment in an Accepted consume.
SecondResetSameDayIsNoOp ==
  [][ \A r \in Slots :
        /\ ( /\ reqs[r].kind = "stats" /\ reqs[r].pc = "save"
             /\ reqs'[r].pc = "resave"
             /\ reqs[r].user.isVerified
             /\ DayOf(reqs[r].user.dailyDownloadDate) = DayOf(now') ) =>
             /\ reqs'[r].user.dailyDownloads = reqs[r].user.dailyDownloads
             /\ reqs'[r].user.dailyDownloadDate = reqs[r].user.dailyDownloadDate
             /\ ~reqs'[r].check.resetInfo.dailyReset
        /\ ( /\ Accepts(r)
             /\ DayOf(reqs[r].user.dailyDownloadDate) = DayOf(now') ) =>
             /\ out'.check.daily.used = reqs[r].user.dailyDownloads
             /\ ~out'.check.resetInfo.dailyReset
    ]_vars

\* C20 witness: the first call of a statistics handler reset the count, and
\* its second call on the same day did not
ResetOnceThenNoOp ==
  \E r \in Slots :
    /\ reqs[r].kind = "stats" /\ reqs[r].pc = "resave"
    /\ reqs[r].wasReset
    /\ reqs[r].user.dailyDownloads = 0
    /\ reqs[r].user.dailyDownloadDate = StartOfDay(now)
    /\ ~reqs[r].check.resetInfo.dailyReset

\* The gate of the consume request in slot r lets a verified subject
\* through: canDownload has made its two reset calls on the document read
GatePasses(r) ==
  /\ reqs[r].kind = "consume" /\ reqs[r].pc = "findUser"
  /\ reqs'[r].pc = "findProduct"

\* C21 as stated: resetMonthlyDownloadsIfNeeded sets monthlyDownloads to 0
\* and monthlyDownloadMonth to the current year-month token exactly when the
\* stored token differs from the current one, and returns true exactly when
\* it performed that reset.
MonthlyResetReturnsWhetherReset ==
  [][ \A r \in Slots : GatePasses(r) =>
        \E t \in {now, now'} :
          LET u == users[reqs[r].uid]
              v == reqs'[r].user
              differs == u.monthlyDownloadMonth # MonthToken(t)
          IN /\ v.monthlyDownloads = IF differs THEN 0 ELSE u.monthlyDownloads
             /\ v.monthlyDownloadMonth = IF differs THEN MonthToken(t)
                                         ELSE u.monthlyDownloadMonth
             /\ reqs'[r].check.resetInfo.monthlyReset <=> differs
    ]_vars

\* C21 amended: the reset is performed exactly when the stored token differs
\* from the current year-month token; the return value is true exactly when
\* the reset was performed and the count it cleared was above 0.
MonthlyResetReturnsWhetherCountCleared ==
  [][ \A r \in Slots : GatePasses(r) =>
        \E t \in {now, now'} :
          LET u == users[reqs[r].uid]
              v == reqs'[r].user
              differs == u.monthlyDownloadMonth # MonthToken(t)
          IN /\ v.monthlyDownloads = IF differs THEN 0 ELSE u.monthlyDownloads
             /\ v.monthlyDownloadMonth = IF differs THEN MonthToken(t)
                                         ELSE u.monthlyDownloadMonth
             /\ reqs'[r].check.resetInfo.monthlyReset <=>
                  (differs /\ u.monthlyDownloads > 0)
    ]_vars

\* C21 witness: the call moved the month token of an account with no
\* downloads in the month to the current month and returned false
MonthlyResetOfZeroCountUnreported ==
  \E r \in Slots :
    /\ reqs[r].kind = "consume" /\ reqs[r].pc = "findProduct"
    /\ users[reqs[r].uid].monthlyDownloadMonth # MonthToken(now)
    /\ reqs[r].user.monthlyDownloadMonth = MonthToken(now)
    /\ users[reqs[r].uid].monthlyDownloads = 0
    /\ ~reqs[r].check.resetInfo.monthlyReset

\* Document v is what a canDownload call leaves of document u: each of the
\* two counts as it was or 0, and the lifetime count, the embedded history
\* and the statistics total as they were
NothingCounted(u, v) ==
  /\ v.dailyDownloads \in {u.dailyDownloads, 0}
  /\ v.monthlyDownloads \in {u.monthlyDownloads, 0}
  /\ v.totalDownloads = u.totalDownloads
  /\ v.downloads = u.downloads
  /\ v.statsTotal = u.statsTotal

\* The statistics handler in slot r makes its canDownload call after the
\* first save
CheckAfterSave(r) ==
  /\ reqs[r].kind = "stats" /\ reqs[r].pc = "save"
  /\ reqs'[r].pc = "resave"

\* C22: canDownload never increments a usage counter: after a call the
\* daily and the monthly count of the document are each what they were or
\* 0, and the lifetime count, the Download collection and every product's
\* downloads counter are unchanged; so at the gate of a consume (passed or
\* denied), in the status and history routes and in the statistics handler.
CanDownloadNeverCounts ==
  [][ /\ \A r \in Slots :
           /\ GatePasses(r) =>
                /\ NothingCounted(users[reqs[r].uid], reqs'[r].user)
                /\ reqs'[r].check.daily.used \in {users[reqs[r].uid].dailyDownloads, 0}
                /\ reqs'[r].check.monthly.used \in {users[reqs[r].uid].monthlyDownloads, 0}
                /\ Db' = Db
           /\ CheckAfterSave(r) =>
                /\ NothingCounted(reqs[r].user, reqs'[r].user)
                /\ users'[reqs[r].uid].totalDownloads = users[reqs[r].uid].totalDownloads
                /\ downloads' = downloads /\ products' = products
      /\ out'.outcome \in {"Denied", "Status", "History"} =>
           /\ out'.check.daily.used \in {users[out'.uid].dailyDownloads, 0}
           /\ out'.check.monthly.used \in {users[out'.uid].monthlyDownloads, 0}
           /\ out'.check.total = users[out'.uid].totalDownloads
           /\ Db' = Db
    ]_vars

\* C22 witness: the canDownload of a gate has cleared both counts of the
\* document in memory, at the first consume of a new month, and has let the
\* subject through
GateClearedBothCounts ==
  \E r \in Slots :
    /\ reqs[r].kind = "consume" /\ reqs[r].pc = "findProduct"
    /\ users[reqs[r].uid].dailyDownloads > 0
    /\ users[reqs[r].uid].monthlyDownloads > 0
    /\ reqs[r].user.dailyDownloads = 0 /\ reqs[r].user.monthlyDownloads = 0
    /\ reqs[r].user.totalDownloads = users[reqs[r].uid].totalDownloads

\* The daily and the monthly count of document u as the two lazy resets
\* leave them at instant t
DailyCountAt(u, t) == IF AnchorPrecedes(u, t) THEN 0 ELSE u.dailyDownloads
MonthlyCountAt(u, t) ==
  IF u.monthlyDownloadMonth # MonthToken(t) THEN 0 ELSE u.monthlyDownloads

\* C23 as stated: the daily and then the monthly reset are applied before
\* every read of the quota counters: no operation (status, history, a
\* denied consume, the global aggregate statistics, the top downloaders)
\* reports the daily or the monthly count of an account with a stale anchor
\* without resetting it first.
CountsReportedAfterResets ==
  [][ /\ out'.outcome \in {"Status", "History", "Denied"} =>
           \E t1 \in {now, now'}, t2 \in {now, now'} :
             /\ out'.check.daily.used = DailyCountAt(users[out'.uid], t1)
             /\ out'.check.monthly.used = MonthlyCountAt(users[out'.uid], t2)
      /\ out'.outcome = "GlobalStats" =>
           \A i \in 1 .. Len(out'.rows) :
             LET S == { u \in Users : users[u].isVerified }
                 RECURSIVE Sum(_, _, _)
                 Sum(T, Op(_, _), t) ==
                   IF T = {} THEN 0
                   ELSE LET u == CHOOSE x \in T : TRUE
                        IN Op(users[u], t) + Sum(T \ {u}, Op, t)
             IN /\ out'.rows[i].totalDailyDownloads = Sum(S, DailyCountAt, now')
                /\ out'.rows[i].totalMonthlyDownloads = Sum(S, MonthlyCountAt, now')
      /\ out'.outcome = "TopDownloaders" =>
           \A i \in 1 .. Len(out'.rows) :
             \E t \in {now, now'} :
               /\ out'.rows[i].dailyDownloads =
                    DailyCountAt(users[out'.rows[i].uid], t)
               /\ out'.rows[i].monthlyDownloads =
                    MonthlyCountAt(users[out'.rows[i].uid], t)
    ]_vars

\* The quota fields of a user document
QuotaOf(u) ==
  << u.dailyDownloads, u.dailyDownloadDate, u.monthlyDownloads,
     u.monthlyDownloadMonth, u.totalDownloads >>

\* Stored document v is stored document u after the daily reset, the
\* monthly reset, both or neither, made at instants up to t: a reset clears
\* a count and moves its anchor forward to a day (a month) that has begun
ResetsOnly(u, v, t) ==
  /\ v.totalDownloads = u.totalDownloads
  /\ \/ /\ v.dailyDownloads = u.dailyDownloads
        /\ v.dailyDownloadDate = u.dailyDownloadDate
     \/ /\ v.dailyDownloads = 0
        /\ v.dailyDownloadDate = StartOfDay(v.dailyDownloadDate)
        /\ v.dailyDownloadDate <= t
        /\ AnchorPrecedes(u, v.dailyDownloadDate)
  /\ \/ /\ v.monthlyDownloads = u.monthlyDownloads
        /\ v.monthlyDownloadMonth = u.monthlyDownloadMonth
     \/ /\ v.monthlyDownloads = 0
        /\ v.monthlyDownloadMonth # u.monthlyDownloadMonth
        /\ \E s \in TimePoints : s <= t /\ v.monthlyDownloadMonth = MonthToken(s)

\* C24 as stated: the counts and anchors of an account (daily, daily
\* anchor, monthly, monthly anchor, lifetime) are changed only by the two
\* reset operations and by an Accepted consume; every other operation
\* (history, statistics, verification, premium activation, cancellation,
\* the tier sweep, the catalogue operations) leaves them unchanged.
QuotaChangedOnlyByResetOrAccept ==
  [][ \A u \in Users :
        QuotaOf(users'[u]) # QuotaOf(users[u]) =>
          \/ \E r \in Slots : Accepts(r) /\ reqs[r].uid = u
          \/ ResetsOnly(users[u], users'[u], now')
    ]_vars

\* C25: the lifetime count of an account never decreases: no reset, denial,
\* replay, aborted transaction, statistics save or tier change lowers
\* totalDownloads.
LifetimeNeverDecreases ==
  [][ \A u \in Users : users'[u].totalDownloads >= users[u].totalDownloads ]_vars

\* C25 witness: a statistics handler has saved its reset over an account
\* that downloaded the same day (the daily count is 0 beside a Download of
\* the day of the anchor), and the lifetime count still counts every
\* Download
LifetimeKeptBySave ==
  \E u \in Users :
    /\ users[u].dailyDownloads = 0
    /\ \E d \in BagToSet(downloads) :
         d.userId = u /\ DayOf(d.downloadDate) = DayOf(users[u].dailyDownloadDate)
    /\ users[u].totalDownloads = DownloadsOf(u)
    /\ users[u].totalDownloads > PresetUser(FreeAtDaily).totalDownloads

\* Year-month token a is not later than token b
TokenNotAfter(a, b) == a[1] < b[1] \/ (a[1] = b[1] /\ a[2] <= b[2])

\* C26: with a clock that never runs backwards, the daily anchor of every
\* stored account is never later than the current day and its monthly
\* anchor never later than the current year-month, from creation onward.
AnchorsNeverInFuture ==
  \A u \in Users :
    /\ users[u].dailyDownloadDate # NoDate =>
         DayOf(users[u].dailyDownloadDate) <= DayOf(now)
    /\ TokenNotAfter(users[u].monthlyDownloadMonth, MonthToken(now))

\* C26 witness: an Accepted consume has moved both anchors of an account to
\* the first day of a new month, the current day
AnchorsMovedToToday ==
  \E u \in Users :
    /\ out.outcome = "Accepted" /\ out.uid = u
    /\ users[u].dailyDownloadDate = StartOfDay(now)
    /\ users[u].monthlyDownloadMonth = MonthToken(now)
    /\ users[u].monthlyDownloadMonth # MonthToken(Day0)

\* User.findById of the consume request in slot r returns and the handler
\* goes through its gates
GateStep(r) ==
  /\ reqs[r].kind = "consume" /\ reqs[r].pc = "findUser"
  /\ reqs'[r].pc # "findUser"

\* C27: an unverified subject never obtains Accepted or Replayed: its
\* consume is rejected with 403 before the quota check (the response
\* carries no quota report and the transaction is aborted), and no counter,
\* no Download document and no product counter changes.
UnverifiedNeverServed ==
  [][ /\ \A r \in Slots :
           (GateStep(r) /\ ~users[reqs[r].uid].isVerified) =>
             /\ out'.outcome \in {"Unverified", "Internal"}
             /\ out'.outcome = "Unverified" =>
                  /\ out'.code = 403 /\ out'.tx = "aborted"
                  /\ "check" \notin DOMAIN out'
             /\ Db' = Db
      /\ out'.outcome \in {"Accepted", "Replayed"} => users[out'.uid].isVerified
      /\ out'.outcome = "Unverified" => ~users[out'.uid].isVerified
    ]_vars

\* C27 witness: the consume of the unverified subject was answered 403 and
\* the account and the collections are as they were at registration
UnverifiedRejected ==
  /\ out.outcome = "Unverified" /\ out.code = 403
  /\ ~users[out.uid].isVerified
  /\ users[out.uid] = NewUser(Day0 + 30)
  /\ downloads = EmptyBag
  /\ \A p \in Products : products[p] # NoDoc => products[p].downloads = 0

\* C28 as stated: in every stored state of every account dailyDownloads <=
\* monthlyDownloads <= totalDownloads, also when the clock crosses a month
\* boundary between the clock read of the daily reset and that of the
\* monthly reset inside one canDownload or incrementDownloadCount call.
CountsOrdered ==
  \A u \in Users :
    /\ users[u].dailyDownloads <= users[u].monthlyDownloads
    /\ users[u].monthlyDownloads <= users[u].totalDownloads

\* C29: in every committed state the lifetime count of an account equals
\* the number of Download documents of the subject, the length of its
\* embedded history list and downloadStats.totalDownloads.
LifetimeCountsEveryRecord ==
  \A u \in Users :
    /\ users[u].totalDownloads = DownloadsOf(u)
    /\ users[u].totalDownloads = BagCardinality(users[u].downloads)
    /\ users[u].totalDownloads = users[u].statsTotal

\* C29 witness: a consume was Accepted, and its Download document and its
\* entry of the embedded history are both stored and counted
AcceptedRecordedTwice ==
  /\ out.outcome = "Accepted"
  /\ \E d \in BagToSet(downloads) :
       d.userId = out.uid /\ d.productId = out.pid
  /\ \E e \in BagToSet(users[out.uid].downloads) : e.productId = out.pid
  /\ users[out.uid].totalDownloads = DownloadsOf(out.uid)
  /\ users[out.uid].totalDownloads = users[out.uid].statsTotal

\* C30 as stated: every consume request eventually ends with exactly one
\* response, and with its transaction committed when the response is
\* Accepted and aborted for every other outcome, also when an operation of
\* the handler fails during a write or during the commit.
ConsumeEndsAnsweredAndSettled ==
  [](reqs[1].kind = "consume" =>
       <>( /\ reqs[1].kind # "consume"
           /\ out.kind = "consume" /\ out.code # 0
           /\ out.tx \in {"committed", "aborted"}
           /\ out.tx = "committed" <=> out.outcome = "Accepted" ))

====
